---- MODULE Spec2Model ----
(***************************************************************************)
(* Model of ultramsg_action/modules/ultramsg_api.py (class UltramsgAPI).   *)
(*                                                                         *)
(* One caller invokes one static method at a time.  A method that reaches  *)
(* the network builds its HTTP request and then waits for the transport,   *)
(* whose outcome (a response or an exception of the requests library) is   *)
(* chosen by the environment.  Python values are tagged records so that    *)
(* dicts, strings, numbers, lists, None and bytes stay distinguishable.    *)
(***************************************************************************)
EXTENDS Integers, Sequences, FiniteSets, TLC

VARIABLES
    pc,            \* "idle" | "waiting" | "returned" | "raised"
    op,            \* name of the method being executed ("" when idle)
    call,          \* keyword arguments of the invocation, as passed by the caller
    request,       \* keyword arguments of the last requests.request / requests.get
    nRequests,     \* HTTP requests issued by the current invocation
    senderCalls,   \* calls of send_rest_request made by the current invocation
    response,      \* the transport's outcome for `request`
    senderResult,  \* what send_rest_request returned to the method (None before)
    result,        \* the value the method returned (PyNone unless pc = "returned")
    raised,        \* class of the exception the method propagated ("" if none)
    log,           \* records emitted on UltramsgAPI.logger by the invocation
    fs,            \* the file system: path -> content
    build          \* version family of the installed requests library

vars == <<pc, op, call, request, nRequests, senderCalls, response, senderResult,
          result, raised, log, fs, build>>

----------------------------------------------------------------------------
(* Bounds of the model *)

\* at most this many keys are left out of an inbound webhook payload
MaxMissing == 1

----------------------------------------------------------------------------
(* Python values *)

NoFields == [k \in {} |-> ""]

None == << >>
Some(x) == <<x>>

PyNone == [t |-> "NoneType", s |-> "", d |-> NoFields]
PyStr(s) == [t |-> "str", s |-> s, d |-> NoFields]
PyInt(s) == [t |-> "int", s |-> s, d |-> NoFields]
PyBool(b) == [t |-> "bool", s |-> IF b THEN "True" ELSE "False", d |-> NoFields]
PyBytes(s) == [t |-> "bytes", s |-> s, d |-> NoFields]
PyDict(f) == [t |-> "dict", s |-> "", d |-> f]
PyList(f) == [t |-> "list", s |-> "", d |-> f]

\* bool(v)
Truthy(v) ==
    CASE v.t = "NoneType" -> FALSE
      [] v.t = "str" -> v.s # ""
      [] v.t = "bytes" -> v.s # ""
      [] v.t = "int" -> v.s # "0"
      [] v.t = "bool" -> v.s = "True"
      [] v.t = "dict" -> DOMAIN v.d # {}
      [] v.t = "list" -> DOMAIN v.d # {}

\* str(v) inside an f-string, for the scalar values the model formats
PyFormat(v) == v.s

Digit(n) == SubSeq("0123456789", n + 1, n + 1)

\* str(n) for a non-negative int
RECURSIVE IntToStr(_)
IntToStr(n) == IF n < 10 THEN Digit(n) ELSE IntToStr(n \div 10) \o Digit(n % 10)

\* what a function call produced: a returned value or a propagated exception,
\* together with the log records it emitted
Return(v, logs) == [kind |-> "return", value |-> v, exc |-> "", logs |-> logs]
Raise(cls, logs) == [kind |-> "raise", value |-> PyNone, exc |-> cls, logs |-> logs]

LogRecord(level, msg) == [level |-> level, msg |-> msg]

----------------------------------------------------------------------------
(* The requests library: exceptions, responses *)

\* direct base class of each exception class
ExcBase(cls) ==
    CASE cls = "ReadTimeout" -> "Timeout"
      [] cls = "ConnectTimeout" -> "Timeout"
      [] cls = "Timeout" -> "RequestException"
      [] cls = "SSLError" -> "ConnectionError"
      [] cls = "ConnectionError" -> "RequestException"
      [] cls = "TooManyRedirects" -> "RequestException"
      [] cls = "HTTPError" -> "RequestException"
      [] cls = "RequestsJSONDecodeError" -> "RequestException"
      [] cls = "RequestException" -> "OSError"
      [] cls = "FileNotFoundError" -> "OSError"
      [] cls = "PermissionError" -> "OSError"
      [] cls = "OSError" -> "Exception"
      [] cls = "JSONDecodeError" -> "ValueError"
      [] cls = "ValueError" -> "Exception"
      [] cls = "AttributeError" -> "Exception"
      [] cls = "KeyError" -> "LookupError"
      [] cls = "LookupError" -> "Exception"
      [] cls = "Exception" -> "BaseException"
      [] OTHER -> ""

\* isinstance(e, base) for an exception e of class cls
RECURSIVE IsInstance(_, _)
IsInstance(cls, base) ==
    IF cls = "" THEN FALSE
    ELSE IF cls = base THEN TRUE
    ELSE IsInstance(ExcBase(cls), base)

\* the exceptions requests raises when the HTTP exchange itself fails
TransportErrors == {"ReadTimeout", "ConnectTimeout", "ConnectionError", "SSLError",
                    "TooManyRedirects"}

\* str(e) of a transport exception
ExcMessage(cls) ==
    CASE cls = "ReadTimeout" -> "Read timed out."
      [] cls = "ConnectTimeout" -> "Connection to host timed out."
      [] cls = "ConnectionError" -> "Connection refused"
      [] cls = "SSLError" -> "certificate verify failed"
      [] cls = "TooManyRedirects" -> "Exceeded 30 redirects."
      [] OTHER -> ""

StatusCodes == {199, 200, 201, 299, 300, 404, 500}

BodyTexts == {"{\"sent\": \"true\", \"id\": 7}", "{\"error\": \"x\"}",
              "{\"error\": \"Wrong token\", \"sent\": \"false\"}",
              "{\"error\": \"\", \"sent\": \"true\"}", "{}", "null", "[]", "[1]", "0",
              "<html>"}

\* json.loads(text); Invalid when the text is not JSON
Invalid == [t |-> "invalid", s |-> "", d |-> NoFields]

JsonParse(text) ==
    CASE text = "{\"sent\": \"true\", \"id\": 7}" ->
            PyDict([sent |-> PyStr("true"), id |-> PyInt("7")])
      [] text = "{\"error\": \"x\"}" -> PyDict([error |-> PyStr("x")])
      [] text = "{\"error\": \"\", \"sent\": \"true\"}" ->
            PyDict([error |-> PyStr(""), sent |-> PyStr("true")])
      [] text = "{}" -> PyDict(NoFields)
      [] text = "null" -> PyNone
      [] text = "[]" -> PyList(NoFields)
      [] text = "[1]" -> PyList([i \in {"0"} |-> PyInt("1")])
      [] text = "0" -> PyInt("0")
      [] text = "{\"error\": \"Wrong token\", \"sent\": \"false\"}" ->
            PyDict([error |-> PyStr("Wrong token"), sent |-> PyStr("false")])
      [] OTHER -> Invalid

ResponseOutcome(status, text) ==
    [exc |-> "", msg |-> "", status_code |-> status, text |-> text,
     ctype |-> IF JsonParse(text) = Invalid THEN "text/html" ELSE "application/json"]

ExceptionOutcome(cls) ==
    [exc |-> cls, msg |-> ExcMessage(cls), status_code |-> 0, text |-> "", ctype |-> ""]

NoOutcome == [exc |-> "", msg |-> "", status_code |-> 0, text |-> "", ctype |-> ""]

Outcomes ==
    {ResponseOutcome(s, t) : s \in StatusCodes, t \in BodyTexts}
        \cup {ExceptionOutcome(c) : c \in TransportErrors}

\* response.json(): requests >= 2.27 raises its own JSONDecodeError, a
\* RequestException; older versions let json's ValueError subclass through
Builds == {"requests<2.27", "requests>=2.27"}

JsonErrorClass(b) == IF b = "requests>=2.27" THEN "RequestsJSONDecodeError" ELSE "JSONDecodeError"

NoRequest ==
    [method |-> "", url |-> "", headers |-> NoFields, json |-> None, params |-> None,
     timeout |-> None]

----------------------------------------------------------------------------
(* Signatures: the parameters of each method and the defaults of the optional ones *)

Sig(required, defaults) == [required |-> required, defaults |-> defaults]

MsgIdDefault == [msg_id |-> ""]
CaptionMsgIdDefault == [caption |-> "", msg_id |-> ""]

Signature(m) ==
    CASE m = "send_text_message" ->
            Sig({"phone_number", "message", "api_url", "api_key"}, MsgIdDefault)
      [] m = "send_image" ->
            Sig({"phone_number", "media_url", "api_url", "api_key"}, CaptionMsgIdDefault)
      [] m = "send_sticker" ->
            Sig({"phone_number", "media_url", "api_url", "api_key"}, MsgIdDefault)
      [] m = "send_document" ->
            Sig({"phone_number", "media_url", "api_url", "api_key", "filename"},
                CaptionMsgIdDefault)
      [] m = "send_audio" ->
            Sig({"phone_number", "media", "api_url", "api_key"}, MsgIdDefault)
      [] m = "send_voice" ->
            Sig({"phone_number", "media", "api_url", "api_key"}, MsgIdDefault)
      [] m = "send_video" ->
            Sig({"phone_number", "media_url", "api_url", "api_key"}, CaptionMsgIdDefault)
      [] m = "send_contact" ->
            Sig({"phone_number", "contact", "api_url", "api_key"}, MsgIdDefault)
      [] m = "send_location" ->
            Sig({"phone_number", "address", "lat", "lng", "api_url", "api_key"},
                MsgIdDefault)
      [] m = "send_vcard" ->
            Sig({"phone_number", "vcard", "api_url", "api_key"}, MsgIdDefault)
      [] m = "send_reaction" ->
            Sig({"msg_id", "reaction", "api_url", "api_key"}, NoFields)
      [] m = "delete_message" -> Sig({"msg_id", "api_url", "api_key"}, NoFields)
      [] m = "send_by_status" -> Sig({"status", "api_url", "api_key"}, NoFields)
      [] m = "send_by_id" -> Sig({"id", "api_url", "api_key"}, NoFields)
      [] m = "clear_messages" -> Sig({"status", "api_url", "api_key"}, NoFields)
      [] m = "get_messages" ->
            Sig({"page", "limit", "status", "sort", "api_url", "api_key"}, NoFields)
      [] m = "update_instance_settings" ->
            Sig({"webhook_url", "send_delay", "webhook_message_received",
                 "webhook_message_create", "webhook_message_ack",
                 "webhook_message_download_media", "api_url", "api_key"}, NoFields)
      [] m = "mark_as_read" -> Sig({"phone_number", "instance_id", "api_key"}, NoFields)
      [] m = "download_media" -> Sig({"media_url"}, [filename |-> ""])
      [] m = "api_transcribe_audio_url" -> Sig({"audio_url"}, [api_url |-> ""])
      [] OTHER -> Sig({"api_url", "api_key"}, NoFields)

\* the parameters as the body of method m sees them: the caller's keyword
\* arguments, and the default of every optional parameter the caller left out
Bind(m, kw) ==
    [p \in Signature(m).required \cup DOMAIN Signature(m).defaults |->
        IF p \in DOMAIN kw THEN kw[p] ELSE Signature(m).defaults[p]]

----------------------------------------------------------------------------
(* send_rest_request *)

\* the parameters of send_rest_request for the keyword arguments kw of a call
BindSender(kw) ==
    [url |-> kw.url,
     data |-> IF "data" \in DOMAIN kw THEN Some(kw.data) ELSE None,
     method |-> IF "method" \in DOMAIN kw THEN kw.method ELSE "POST",
     headers |-> IF "headers" \in DOMAIN kw THEN Some(kw.headers) ELSE None,
     params |-> IF "params" \in DOMAIN kw THEN Some(kw.params) ELSE None]

DefaultHeaders == [h \in {"Content-Type"} |-> "application/json"]

\* the keyword arguments send_rest_request hands to requests.request
SenderRequest(s) ==
    [method |-> s.method,
     url |-> s.url,
     headers |-> IF s.headers = None THEN DefaultHeaders ELSE s.headers[1],
     json |-> s.data,
     params |-> s.params,
     timeout |-> None]

\* variant: only 200 counts as success
IsSuccessStatusOnly200(status) == status = 200

\* status_code // 100 == 2
IsSuccessStatus(status) == status \div 100 = 2

\* variant: an except clause that names only requests.exceptions.Timeout
SenderCatchesTimeoutOnly(cls) == IsInstance(cls, "Timeout")

\* the except clause of send_rest_request
SenderCatches(cls) == IsInstance(cls, "RequestException")

\* variant: the failure dict also carries a "details" key
SenderFailureWithDetails(msg) ==
    Return(PyDict([error |-> PyStr(msg), details |-> PyStr(msg)]),
           <<LogRecord("ERROR", msg)>>)

SenderFailure(msg) ==
    Return(PyDict([error |-> PyStr(msg)]), <<LogRecord("ERROR", msg)>>)

\* result.get("error", False)
GetError(body) == IF "error" \in DOMAIN body.d THEN body.d["error"] ELSE PyBool(FALSE)

\* variant: a gateway-reported error replaces the body by a wrapper
SenderSuccessWrapsError(body) ==
    IF ~Truthy(body) THEN Return(body, << >>)
    ELSE IF body.t # "dict" THEN Raise("AttributeError", << >>)
    ELSE IF Truthy(GetError(body))
         THEN Return(PyDict([error |-> GetError(body)]),
                     <<LogRecord("ERROR",
                                 "Ultramsg request error: " \o PyFormat(GetError(body)))>>)
         ELSE Return(body, << >>)

\* the 2xx branch once response.json() has produced `body`
SenderSuccess(body) ==
    IF ~Truthy(body) THEN Return(body, << >>)
    ELSE IF body.t # "dict" THEN Raise("AttributeError", << >>)
    ELSE IF Truthy(GetError(body))
         THEN Return(body, <<LogRecord("ERROR",
                                "Ultramsg request error: " \o PyFormat(GetError(body)))>>)
         ELSE Return(body, << >>)

\* an exception of class cls raised inside the try block
SenderExcept(cls, msg) ==
    IF SenderCatches(cls)
    THEN SenderFailure("error while executing ultramsg call: " \o msg)
    ELSE Raise(cls, << >>)

\* send_rest_request from the transport's outcome on
send_rest_request(out, b) ==
    IF out.exc # "" THEN SenderExcept(out.exc, out.msg)
    ELSE IF IsSuccessStatus(out.status_code)
         THEN IF JsonParse(out.text) = Invalid
              THEN SenderExcept(JsonErrorClass(b), "Expecting value: line 1 column 1 (char 0)")
              ELSE SenderSuccess(JsonParse(out.text))
         ELSE SenderFailure("Request failed with status code " \o IntToStr(out.status_code)
                                \o ", response: " \o out.text)

----------------------------------------------------------------------------
(* The methods that wrap send_rest_request.  Each takes its bound parameters *)
(* a and yields the keyword arguments of its call of send_rest_request.      *)

send_text_message(a) ==
    [url |-> a.api_url \o "/messages/chat",
     data |-> [token |-> a.api_key, to |-> a.phone_number, body |-> a.message,
              msgId |-> a.msg_id]]

\* variant: the message id to quote is left out of the payload
send_image_without_msgId(a) ==
    [url |-> a.api_url \o "/messages/image",
     data |-> [token |-> a.api_key, to |-> a.phone_number, image |-> a.media_url,
              caption |-> a.caption]]

send_image(a) ==
    [url |-> a.api_url \o "/messages/image",
     data |-> [token |-> a.api_key, to |-> a.phone_number, image |-> a.media_url,
              caption |-> a.caption, msgId |-> a.msg_id]]

send_sticker(a) ==
    [url |-> a.api_url \o "/messages/sticker",
     data |-> [token |-> a.api_key, to |-> a.phone_number, sticker |-> a.media_url,
              msgId |-> a.msg_id]]

send_document(a) ==
    [url |-> a.api_url \o "/messages/document",
     data |-> [token |-> a.api_key, to |-> a.phone_number, filename |-> a.filename,
              document |-> a.media_url, caption |-> a.caption, msgId |-> a.msg_id]]

send_audio(a) ==
    [url |-> a.api_url \o "/messages/audio",
     data |-> [token |-> a.api_key, to |-> a.phone_number, audio |-> a.media,
              msgId |-> a.msg_id]]

send_voice(a) ==
    [url |-> a.api_url \o "/messages/voice",
     data |-> [token |-> a.api_key, to |-> a.phone_number, audio |-> a.media,
              msgId |-> a.msg_id]]

send_video(a) ==
    [url |-> a.api_url \o "/messages/video",
     data |-> [token |-> a.api_key, to |-> a.phone_number, video |-> a.media_url,
              caption |-> a.caption, msgId |-> a.msg_id]]

send_contact(a) ==
    [url |-> a.api_url \o "/messages/contact",
     data |-> [token |-> a.api_key, to |-> a.phone_number, contact |-> a.contact,
              msgId |-> a.msg_id]]

send_location(a) ==
    [url |-> a.api_url \o "/messages/location",
     data |-> [token |-> a.api_key, to |-> a.phone_number, address |-> a.address,
              lat |-> a.lat, lng |-> a.lng, msgId |-> a.msg_id]]

send_vcard(a) ==
    [url |-> a.api_url \o "/messages/vcard",
     data |-> [token |-> a.api_key, to |-> a.phone_number, vcard |-> a.vcard,
              msgId |-> a.msg_id]]

send_reaction(a) ==
    [url |-> a.api_url \o "/messages/reaction",
     data |-> [token |-> a.api_key, msgId |-> a.msg_id, emoji |-> a.reaction]]

delete_message(a) ==
    [url |-> a.api_url \o "/messages/delete",
     data |-> [token |-> a.api_key, msgId |-> a.msg_id]]

send_by_status(a) ==
    [url |-> a.api_url \o "/messages/resendByStatus",
     data |-> [token |-> a.api_key, status |-> a.status]]

send_by_id(a) ==
    [url |-> a.api_url \o "/messages/resendById",
     data |-> [token |-> a.api_key, id |-> a.id]]

clear_messages(a) ==
    [url |-> a.api_url \o "/messages/clear",
     data |-> [token |-> a.api_key, status |-> a.status]]

get_messages(a) ==
    [url |-> a.api_url \o "/messages",
     data |-> [token |-> a.api_key, page |-> a.page, limit |-> a.limit,
              status |-> a.status, sort |-> a.sort]]

get_statistics(a) ==
    [url |-> a.api_url \o "/messages/statistics",
     data |-> [token |-> a.api_key]]

get_instance_status(a) ==
    [url |-> a.api_url \o "/instance/status",
     data |-> [token |-> a.api_key]]

get_qr_image(a) ==
    [url |-> a.api_url \o "/instance/qr",
     data |-> [token |-> a.api_key]]

get_authentication_qr(a) ==
    [url |-> a.api_url \o "/instance/qrCode",
     data |-> [token |-> a.api_key]]

get_connected_phones(a) ==
    [url |-> a.api_url \o "/instance/me",
     data |-> [token |-> a.api_key]]

get_instance_settings(a) ==
    [url |-> a.api_url \o "/instance/settings",
     params |-> [token |-> a.api_key],
     method |-> "GET"]

logout(a) ==
    [url |-> a.api_url \o "/instance/logout",
     data |-> [token |-> a.api_key]]

restart_instance(a) ==
    [url |-> a.api_url \o "/instance/restart",
     data |-> [token |-> a.api_key]]

update_instance_settings(a) ==
    [url |-> a.api_url \o "/instance/settings",
     data |-> [token |-> a.api_key, sendDelay |-> a.send_delay,
              webhook_url |-> a.webhook_url,
              webhook_message_received |-> a.webhook_message_received,
              webhook_message_create |-> a.webhook_message_create,
              webhook_message_ack |-> a.webhook_message_ack,
              webhook_message_download_media |-> a.webhook_message_download_media]]

clear_settings(a) ==
    [url |-> a.api_url \o "/instance/clear",
     data |-> [token |-> a.api_key]]

mark_as_read(a) ==
    [url |-> "https://api.ultramsg.com/" \o a.instance_id \o "/chats/read",
     data |-> [token |-> a.api_key, chatId |-> a.phone_number]]

SendMethods ==
    {"send_text_message", "send_image", "send_sticker", "send_document", "send_audio",
     "send_voice", "send_video", "send_contact", "send_location", "send_vcard",
     "send_reaction"}

\* every method that is a wrapper around send_rest_request
RestMethods ==
    SendMethods \cup
    {"delete_message", "send_by_status", "send_by_id", "clear_messages", "get_messages",
     "get_statistics", "get_instance_status", "get_qr_image", "get_authentication_qr",
     "get_connected_phones", "get_instance_settings", "logout", "restart_instance",
     "update_instance_settings", "clear_settings", "mark_as_read"}

\* the call of send_rest_request made by wrapper m with bound parameters a
SenderCallOf(m, a) ==
    CASE m = "send_text_message" -> send_text_message(a)
      [] m = "send_image" -> send_image(a)
      [] m = "send_sticker" -> send_sticker(a)
      [] m = "send_document" -> send_document(a)
      [] m = "send_audio" -> send_audio(a)
      [] m = "send_voice" -> send_voice(a)
      [] m = "send_video" -> send_video(a)
      [] m = "send_contact" -> send_contact(a)
      [] m = "send_location" -> send_location(a)
      [] m = "send_vcard" -> send_vcard(a)
      [] m = "send_reaction" -> send_reaction(a)
      [] m = "delete_message" -> delete_message(a)
      [] m = "send_by_status" -> send_by_status(a)
      [] m = "send_by_id" -> send_by_id(a)
      [] m = "clear_messages" -> clear_messages(a)
      [] m = "get_messages" -> get_messages(a)
      [] m = "get_statistics" -> get_statistics(a)
      [] m = "get_instance_status" -> get_instance_status(a)
      [] m = "get_qr_image" -> get_qr_image(a)
      [] m = "get_authentication_qr" -> get_authentication_qr(a)
      [] m = "get_connected_phones" -> get_connected_phones(a)
      [] m = "logout" -> logout(a)
      [] m = "restart_instance" -> restart_instance(a)
      [] m = "update_instance_settings" -> update_instance_settings(a)
      [] m = "clear_settings" -> clear_settings(a)
      [] m = "get_instance_settings" -> get_instance_settings(a)
      [] m = "mark_as_read" -> mark_as_read(a)

\* variant: the wrapper re-wraps a failure of the Request Sender
WrapperResultRewrapped(sent) ==
    IF sent.t = "dict" /\ "error" \in DOMAIN sent.d
    THEN PyDict([error |-> PyStr("request failed"), details |-> sent])
    ELSE sent

\* `return UltramsgAPI.send_rest_request(...)`: the wrapper returns what the
\* Request Sender produced
WrapperResult(sent) == sent

----------------------------------------------------------------------------
(* parse_inbound_message *)

\* str.replace(old, new): every non-overlapping occurrence, left to right
RECURSIVE Replace(_, _, _)
Replace(s, old, new) ==
    IF Len(s) < Len(old) THEN s
    ELSE IF SubSeq(s, 1, Len(old)) = old
         THEN new \o Replace(SubSeq(s, Len(old) + 1, Len(s)), old, new)
         ELSE SubSeq(s, 1, 1) \o Replace(SubSeq(s, 2, Len(s)), old, new)

\* variant: d.get(k) with the default forgotten
DictGetNoDefault(v, k, default) == IF k \in DOMAIN v.d THEN v.d[k] ELSE PyNone

\* d.get(k, default)
DictGet(v, k, default) == IF k \in DOMAIN v.d THEN v.d[k] ELSE default

HasKey(v, k) == v.t = "dict" /\ k \in DOMAIN v.d

\* the subscript lookups request[...] and request["data"][...] of the parser, in
\* the order the statements make them; each raises KeyError when the key is absent
RequiredLookups ==
    <<"data.id", "instanceId", "event_type", "data.time", "data.author", "data.fromMe",
      "data.from", "data.to", "data.body">>

DataKey(path) == SubSeq(path, 6, Len(path))

LookupFails(req, path) ==
    IF Len(path) > 5 /\ SubSeq(path, 1, 5) = "data."
    THEN ~HasKey(req, "data") \/ ~HasKey(req.d["data"], DataKey(path))
    ELSE ~HasKey(req, path)

\* variant: only known media types get a caption
NeedsCaptionKnownType(message_type) == message_type \notin {PyStr("chat"), PyStr("unknown")}

\* `if data["message_type"] != "chat":`
NeedsCaption(message_type) == message_type # PyStr("chat")

WithCaption(rec) ==
    IF NeedsCaption(rec["message_type"])
    THEN [k \in DOMAIN rec \cup {"caption"} |-> IF k = "caption" THEN rec["body"] ELSE rec[k]]
    ELSE rec

\* the value stored under data["author"]
ParsedAuthor(data) == data.d["author"]

\* the value stored under data["sender_number"]
ParsedSender(data) == PyStr(Replace(data.d["from"].s, "@c.us", ""))

\* the value stored under data["agent_number"]
ParsedAgent(data) == PyStr(Replace(data.d["to"].s, "@c.us", ""))

ParsedFields(req) ==
    LET data == req.d["data"] IN
    [message_id |-> data.d["id"],
     instance_id |-> req.d["instanceId"],
     event_type |-> req.d["event_type"],
     time |-> data.d["time"],
     author |-> ParsedAuthor(data),
     from_self |-> data.d["fromMe"],
     sender_name |-> DictGet(DictGet(req, "data", PyDict(NoFields)), "pushname", PyStr("")),
     sender_number |-> ParsedSender(data),
     agent_number |-> ParsedAgent(data),
     parent_message |-> DictGet(data, "quotedMsg", PyStr("")),
     message_type |-> DictGet(data, "type", PyStr("unknown")),
     body |-> data.d["body"],
     media |-> DictGet(DictGet(req, "data", PyDict(NoFields)), "media", PyStr("")),
     location |-> DictGet(DictGet(req, "data", PyDict(NoFields)), "location", PyStr(""))]

\* variant: a missing key is swallowed and an empty mapping returned
parse_inbound_message_lenient(req) ==
    IF ~Truthy(req) THEN Return(PyDict(NoFields), << >>)
    ELSE IF \E i \in 1..Len(RequiredLookups) : LookupFails(req, RequiredLookups[i])
         THEN Return(PyDict(NoFields), << >>)
         ELSE Return(PyDict(WithCaption(ParsedFields(req))), << >>)

parse_inbound_message(req) ==
    IF ~Truthy(req) THEN Return(PyDict(NoFields), << >>)
    ELSE IF \E i \in 1..Len(RequiredLookups) : LookupFails(req, RequiredLookups[i])
         THEN Raise("KeyError", << >>)
         ELSE Return(PyDict(WithCaption(ParsedFields(req))), << >>)

(* webhook payloads handed to the parser *)

FromValues == {"1555@c.us", "1555", "120363@g.us"}
ToValues == {"1999@c.us", "1999"}
AuthorValues == {"", "1777@c.us"}
TypeValues == {"chat", "image"}
BodyValues == {"How are you?", ""}

TopKeys == {"event_type", "instanceId", "id", "data"}
DataKeys == {"id", "from", "to", "author", "pushname", "type", "body", "media", "fromMe",
             "quotedMsg", "time", "location"}

\* every key that may be left out of a payload, as a lookup path
PayloadPaths == (TopKeys \ {"id"}) \cup {"data." \o k : k \in DataKeys}

FullData(from, to, author, type, body) ==
    [id |-> PyStr("false_1555@c.us_3EB0"), from |-> PyStr(from), to |-> PyStr(to),
     author |-> PyStr(author), pushname |-> PyStr("Ann"), type |-> PyStr(type),
     body |-> PyStr(body), media |-> PyStr(""), fromMe |-> PyBool(FALSE),
     quotedMsg |-> PyDict(NoFields), time |-> PyInt("1234567890"),
     location |-> PyStr("")]

Restrict(f, S) == [k \in S |-> f[k]]

Payload(from, to, author, type, body, missing) ==
    LET data == Restrict(FullData(from, to, author, type, body),
                         {k \in DataKeys : ("data." \o k) \notin missing})
        top == [event_type |-> PyStr("message_received"), instanceId |-> PyStr("90909"),
                id |-> PyStr("evt_1"), data |-> PyDict(data)]
    IN PyDict(Restrict(top, {k \in TopKeys : k \notin missing}))

\* the keys the parser reads with .get(key, default)
OptionalPaths == {"data.pushname", "data.quotedMsg", "data.type", "data.media",
                  "data.location"}

\* the payloads: any of the keys read with .get may be absent, and up to
\* MaxMissing of the other keys
MissingSets ==
    {xo \cup xr : xo \in SUBSET OptionalPaths,
                  xr \in {x \in SUBSET (PayloadPaths \ OptionalPaths) :
                              Cardinality(x) <= MaxMissing}}

Payloads ==
    {Payload(f, t, a, y, b, m) :
        f \in FromValues, t \in ToValues, a \in AuthorValues, y \in TypeValues,
        b \in BodyValues, m \in MissingSets}
    \cup {PyDict(NoFields), PyNone}

----------------------------------------------------------------------------
(* download_media and api_transcribe_audio_url *)

\* the keyword arguments of requests.get(media_url)
DownloadRequest(a) ==
    [method |-> "GET", url |-> a.media_url, headers |-> NoFields, json |-> None,
     params |-> None, timeout |-> None]

ReasonPhrase(status) ==
    CASE status = 404 -> "Not Found"
      [] status = 500 -> "Internal Server Error"
      [] OTHER -> "Error"

\* response.raise_for_status() raises HTTPError for 4xx and 5xx only
RaisesForStatus(status) == 400 <= status /\ status < 600

HttpErrorMessage(status, url) ==
    IntToStr(status) \o (IF status < 500 THEN " Client Error: " ELSE " Server Error: ")
        \o ReasonPhrase(status) \o " for url: " \o url

\* the except clause of download_media
DownloadCatches(cls) == IsInstance(cls, "RequestException")

DownloadExcept(cls, msg) ==
    IF DownloadCatches(cls)
    THEN Return(PyDict([error |-> PyStr(msg)]),
                <<LogRecord("ERROR", "an exception occurred, " \o cls)>>)
    ELSE Raise(cls, << >>)

\* outcomes of open(filename, "wb") followed by file.write(content)
WriteOutcomes == {"ok", "PermissionError"}

WriteFile(files, path, content) ==
    [f \in DOMAIN files \cup {path} |-> IF f = path THEN content ELSE files[f]]

RemoveFile(files, path) == [f \in DOMAIN files \ {path} |-> files[f]]

\* download_media from the transport's outcome on: what it returns or raises,
\* and the file system it leaves
download_media(a, out, wr, files) ==
    IF out.exc # "" THEN [ret |-> DownloadExcept(out.exc, out.msg), fs |-> files]
    ELSE IF RaisesForStatus(out.status_code)
    THEN [ret |-> DownloadExcept("HTTPError", HttpErrorMessage(out.status_code, a.media_url)),
          fs |-> files]
    ELSE IF a.filename # ""
    THEN IF wr # "ok" THEN [ret |-> DownloadExcept(wr, "Permission denied"), fs |-> files]
         ELSE LET written == WriteFile(files, a.filename, out.text) IN
              IF a.filename \in DOMAIN written
              THEN [ret |-> Return(PyDict([success |->
                                PyStr("media saved to " \o a.filename \o " successfully")]),
                            <<LogRecord("DEBUG",
                                "media saved to " \o a.filename \o " successfully")>>),
                    fs |-> written]
              ELSE [ret |-> Return(PyDict([error |->
                                PyStr("unable to save media to " \o a.filename)]),
                            <<LogRecord("ERROR", "unable to save media to " \o a.filename)>>),
                    fs |-> written]
    ELSE [ret |-> Return(PyDict([success |->
                        PyDict([mime_type |-> PyStr(out.ctype),
                                content |-> PyBytes(out.text)])]),
                    <<LogRecord("DEBUG", "returned media binary")>>),
          fs |-> files]

\* str(uuid.uuid4()): names no existing file carries
Uuids == {"7f9c24e8-3b12-4fef-91a0-5d2c1b7e8a44"}

\* `{status: result}` after the except clause of api_transcribe_audio_url
TranscribeFailure(msg, logs) ==
    Return(PyDict([error |-> PyDict([message |-> PyStr("Error: " \o msg)])]),
           logs \o <<LogRecord("ERROR", "an exception occurred, " \o msg)>>)

\* what requests.request("POST", api_url, ..., files=files) raises while it
\* prepares the upload: MissingSchema for the default api_url of "", and else
\* ValueError, because the with block has closed the handle it is to read
UploadFailure(api_url) ==
    IF api_url = ""
    THEN "Invalid URL '': No scheme supplied. Perhaps you meant https://?"
    ELSE "read of closed file"

\* api_transcribe_audio_url once its download_media call has finished with dl:
\* an exception of the download, made outside the try block, propagates;
\* open(filename, "rb") needs the file; the file is removed; the upload fails
\* while it is prepared, and `except Exception` turns either failure into the
\* error result
api_transcribe_audio_url(filename, api_url, dl) ==
    IF dl.ret.kind = "raise" THEN [ret |-> dl.ret, fs |-> dl.fs]
    ELSE IF filename \notin DOMAIN dl.fs
    THEN [ret |-> TranscribeFailure("[Errno 2] No such file or directory: '" \o filename \o "'",
                                    dl.ret.logs),
          fs |-> dl.fs]
    ELSE [ret |-> TranscribeFailure(UploadFailure(api_url), dl.ret.logs),
          fs |-> RemoveFile(dl.fs, filename)]

----------------------------------------------------------------------------
(* The callers and the environment *)

\* the credentials a caller holds: gateway base URL, instance id, access token
Callers ==
    {[api_url |-> "https://api.ultramsg.com/instance1", instance_id |-> "instance1",
      api_key |-> "tokenA"],
     [api_url |-> "https://gateway.example.test/instance2", instance_id |-> "instance2",
      api_key |-> "tokenB"]}

\* the value a caller passes for parameter p
ArgValue(p, c) ==
    CASE p = "api_url" -> c.api_url
      [] p = "api_key" -> c.api_key
      [] p = "instance_id" -> c.instance_id
      [] p = "filename" -> "media.bin"
      [] OTHER -> "<" \o p \o ">"

\* keyword arguments: every required parameter and the optional ones in `given`
Kwargs(m, c, given) == [p \in Signature(m).required \cup given |-> ArgValue(p, c)]

InitialFiles == {NoFields, [f \in {"media.bin"} |-> "old"]}

Init ==
    /\ pc = "idle"
    /\ op = ""
    /\ call = NoFields
    /\ request = NoRequest
    /\ nRequests = 0
    /\ senderCalls = 0
    /\ response = NoOutcome
    /\ senderResult = None
    /\ result = PyNone
    /\ raised = ""
    /\ log = << >>
    /\ fs \in InitialFiles
    /\ build \in Builds

\* a caller invokes wrapper m: the payload is built and handed to
\* send_rest_request, which issues the HTTP request
Invoke(m, c, given) ==
    /\ pc = "idle"
    /\ m \in RestMethods
    /\ given \subseteq DOMAIN Signature(m).defaults
    /\ LET kw == Kwargs(m, c, given)
           s == BindSender(SenderCallOf(m, Bind(m, kw)))
       IN /\ call' = kw
          /\ request' = SenderRequest(s)
    /\ op' = m
    /\ pc' = "waiting"
    /\ nRequests' = nRequests + 1
    /\ senderCalls' = senderCalls + 1
    /\ UNCHANGED <<response, senderResult, result, raised, log, fs, build>>

\* the transport answers the request of a wrapper; send_rest_request and the
\* wrapper run to completion
Respond(out) ==
    /\ pc = "waiting"
    /\ op \in RestMethods
    /\ LET sent == send_rest_request(out, build) IN
       /\ senderResult' = IF sent.kind = "return" THEN Some(sent.value) ELSE None
       /\ result' = IF sent.kind = "return" THEN WrapperResult(sent.value) ELSE PyNone
       /\ raised' = sent.exc
       /\ log' = log \o sent.logs
       /\ pc' = IF sent.kind = "return" THEN "returned" ELSE "raised"
    /\ response' = out
    /\ UNCHANGED <<op, call, request, nRequests, senderCalls, fs, build>>

\* a caller invokes download_media or api_transcribe_audio_url: requests.get is
\* issued for the media URL
InvokeDownload(m, c, given) ==
    /\ pc = "idle"
    /\ m \in {"download_media", "api_transcribe_audio_url"}
    /\ given \subseteq DOMAIN Signature(m).defaults
    /\ LET kw == Kwargs(m, c, given) IN
       /\ call' = kw
       /\ request' = DownloadRequest([media_url |->
                        IF m = "download_media" THEN kw.media_url ELSE kw.audio_url])
    /\ op' = m
    /\ pc' = "waiting"
    /\ nRequests' = nRequests + 1
    /\ UNCHANGED <<senderCalls, response, senderResult, result, raised, log, fs, build>>

\* the local variable `filename` of the running download
LocalFilename(u) == IF op = "download_media" THEN Bind(op, call).filename ELSE u

\* the transport answers requests.get; the method runs to completion
RespondDownload(out, wr, u) ==
    /\ pc = "waiting"
    /\ op \in {"download_media", "api_transcribe_audio_url"}
    /\ u \notin DOMAIN fs
    /\ LET dl == download_media([media_url |-> request.url, filename |-> LocalFilename(u)],
                                out, wr, fs)
           done == IF op = "download_media" THEN dl
                   ELSE api_transcribe_audio_url(u, Bind(op, call).api_url, dl)
       IN /\ result' = done.ret.value
          /\ raised' = done.ret.exc
          /\ log' = log \o done.ret.logs
          /\ pc' = IF done.ret.kind = "return" THEN "returned" ELSE "raised"
          /\ fs' = done.fs
    /\ response' = out
    /\ UNCHANGED <<op, call, request, nRequests, senderCalls, senderResult, build>>

\* the webhook handler hands a payload to the parser
Parse(req) ==
    /\ pc = "idle"
    /\ LET parsed == parse_inbound_message(req) IN
       /\ result' = parsed.value
       /\ raised' = parsed.exc
       /\ pc' = IF parsed.kind = "return" THEN "returned" ELSE "raised"
    /\ op' = "parse_inbound_message"
    /\ call' = [request |-> req]
    /\ UNCHANGED <<request, nRequests, senderCalls, response, senderResult, log, fs, build>>

\* the invocation is over; the next one starts from a clean slate, on whatever
\* files the environment has left
Finish ==
    /\ pc \in {"returned", "raised"}
    /\ pc' = "idle"
    /\ op' = ""
    /\ call' = NoFields
    /\ request' = NoRequest
    /\ nRequests' = 0
    /\ senderCalls' = 0
    /\ response' = NoOutcome
    /\ senderResult' = None
    /\ result' = PyNone
    /\ raised' = ""
    /\ log' = << >>
    /\ fs' \in InitialFiles
    /\ UNCHANGED build

Next ==
    \/ \E m \in RestMethods, c \in Callers, given \in SUBSET {"caption", "msg_id"} :
            Invoke(m, c, given)
    \/ \E out \in Outcomes : Respond(out)
    \/ \E m \in {"download_media", "api_transcribe_audio_url"}, c \in Callers,
          given \in SUBSET {"filename", "api_url"} : InvokeDownload(m, c, given)
    \/ \E out \in Outcomes, wr \in WriteOutcomes, u \in Uuids : RespondDownload(out, wr, u)
    \/ \E req \in Payloads : Parse(req)
    \/ Finish

Spec == Init /\ [][Next]_vars

----------------------------------------------------------------------------
(* Properties of the Request Sender *)

Finished == pc \in {"returned", "raised"}

ErrorDict(msg) == PyDict([error |-> PyStr(msg)])

Is2xx(status) == 200 <= status /\ status <= 299

GatewayReportedError ==
    /\ response.exc = ""
    /\ Is2xx(response.status_code)
    /\ JsonParse(response.text).t = "dict"
    /\ "error" \in DOMAIN JsonParse(response.text).d
    /\ JsonParse(response.text).d["error"].s # ""

\* C2: a 2xx response whose JSON body has a non-empty `error` field is returned
\* as parsed, unchanged, and the error is logged.
C2_GatewayErrorBodyReturnedUnchanged ==
    (Finished /\ op \in RestMethods /\ GatewayReportedError) =>
        /\ pc = "returned"
        /\ result = JsonParse(response.text)
        /\ \E i \in 1..Len(log) :
              log[i] = LogRecord("ERROR", "Ultramsg request error: "
                                            \o JsonParse(response.text).d["error"].s)

C2_Witness ==
    /\ pc = "returned"
    /\ op \in RestMethods
    /\ response.status_code = 200
    /\ response.text = "{\"error\": \"Wrong token\", \"sent\": \"false\"}"
    /\ result = PyDict([error |-> PyStr("Wrong token"), sent |-> PyStr("false")])
    /\ log = <<LogRecord("ERROR", "Ultramsg request error: Wrong token")>>

StatusFailure(status, text) ==
    ErrorDict("Request failed with status code " \o IntToStr(status) \o ", response: " \o text)

C4_RequestsCarryTimeout ==
    /\ (op \in RestMethods /\ pc = "waiting") => request.timeout # None
    /\ (Finished /\ op \in RestMethods /\ IsInstance(response.exc, "Timeout")) =>
          /\ pc = "returned"
          /\ \E n \in 1..60 :
                result = ErrorDict("Timeout after " \o IntToStr(n) \o " seconds")

----------------------------------------------------------------------------
(* Properties of the outbound operations *)

GatewayMethods == RestMethods \cup {"download_media", "api_transcribe_audio_url"}

\* {"error": <message>}, optionally with "details"
IsErrorShape(v) ==
    /\ v.t = "dict"
    /\ "error" \in DOMAIN v.d
    /\ DOMAIN v.d \subseteq {"error", "details"}
    /\ v.d["error"].t = "str"

\* the JSON object the gateway answered with
IsGatewayObject(v) ==
    /\ response.exc = ""
    /\ JsonParse(response.text).t = "dict"
    /\ v = JsonParse(response.text)

DocumentedKeys(m) ==
    CASE m = "send_text_message" -> {"token", "to", "body", "msgId"}
      [] m = "send_image" -> {"token", "to", "image", "caption", "msgId"}
      [] m = "send_sticker" -> {"token", "to", "sticker", "msgId"}
      [] m = "send_document" -> {"token", "to", "filename", "document", "caption", "msgId"}
      [] m = "send_audio" -> {"token", "to", "audio", "msgId"}
      [] m = "send_voice" -> {"token", "to", "audio", "msgId"}
      [] m = "send_video" -> {"token", "to", "video", "caption", "msgId"}
      [] m = "send_contact" -> {"token", "to", "contact", "msgId"}
      [] m = "send_location" -> {"token", "to", "address", "lat", "lng", "msgId"}
      [] m = "send_vcard" -> {"token", "to", "vcard", "msgId"}
      [] m = "send_reaction" -> {"token", "msgId", "emoji"}

\* C6: the payload a send operation hands to the Request Sender has exactly the
\* operation's documented keys; `token` is the caller's access token; caption and
\* msgId are the empty string when the caller did not supply them, and the
\* caller's value otherwise.
C6_SendPayloads ==
    op \in SendMethods =>
        /\ request.json # None
        /\ LET payload == request.json[1] IN
           /\ DOMAIN payload = DocumentedKeys(op)
           /\ payload["token"] = call["api_key"]
           /\ "caption" \in DocumentedKeys(op) =>
                 payload["caption"] = IF "caption" \in DOMAIN call THEN call["caption"] ELSE ""
           /\ payload["msgId"] = IF "msg_id" \in DOMAIN call THEN call["msg_id"] ELSE ""

C6_Witness ==
    /\ pc = "waiting"
    /\ op = "send_image"
    /\ DOMAIN call = {"phone_number", "media_url", "api_url", "api_key"}
    /\ request.json = Some([token |-> "tokenB", to |-> "<phone_number>",
                            image |-> "<media_url>", caption |-> "", msgId |-> ""])

\* the endpoint suffix the specification lists for each enumerated operation
EndpointSuffix(m) ==
    CASE m = "send_text_message" -> "messages/chat"
      [] m = "send_image" -> "messages/image"
      [] m = "send_sticker" -> "messages/sticker"
      [] m = "send_document" -> "messages/document"
      [] m = "send_audio" -> "messages/audio"
      [] m = "send_voice" -> "messages/voice"
      [] m = "send_video" -> "messages/video"
      [] m = "send_contact" -> "messages/contact"
      [] m = "send_location" -> "messages/location"
      [] m = "send_vcard" -> "messages/vcard"
      [] m = "send_reaction" -> "messages/reaction"
      [] m = "delete_message" -> "messages/delete"
      [] m = "logout" -> "instance/logout"
      [] m = "restart_instance" -> "instance/restart"
      [] m = "update_instance_settings" -> "instance/settings"
      [] m = "mark_as_read" -> "chats/read"
      [] m = "get_instance_status" -> "instance/status"
      [] m = "get_qr_image" -> "instance/qr"

EnumeratedMethods ==
    SendMethods \cup {"delete_message", "logout", "restart_instance",
                      "update_instance_settings", "mark_as_read", "get_instance_status",
                      "get_qr_image"}

ListedHttpMethod(m) == IF m \in {"get_instance_status", "get_qr_image"} THEN "GET" ELSE "POST"

\* the gateway base URL of the caller who made the running call
CallerBaseUrls ==
    IF "api_url" \in DOMAIN call THEN {call["api_url"]}
    ELSE {c.api_url : c \in {x \in Callers : x.instance_id = call["instance_id"]}}

\* C7 (as claimed): each enumerated operation requests the caller's gateway base
\* URL followed by its endpoint suffix, instance status and QR image as GET.
C7_ListedEndpoints ==
    op \in EnumeratedMethods =>
        /\ \E base \in CallerBaseUrls : request.url = base \o "/" \o EndpointSuffix(op)
        /\ request.method = ListedHttpMethod(op)

\* C8: an invocation of an outbound operation issues exactly one HTTP request,
\* through one call of the Request Sender, whatever the outcome, and hands the
\* Request Sender's result (its error dict when the request failed) to the caller
\* unchanged.
C8_OneRequestNoRetry ==
    op \in RestMethods =>
        /\ nRequests = 1
        /\ senderCalls = 1
        /\ pc = "returned" => senderResult = Some(result)
        /\ pc = "raised" => senderResult = None

C8_Witness ==
    /\ pc = "returned"
    /\ op = "logout"
    /\ response.status_code = 500
    /\ nRequests = 1
    /\ senderResult = Some(result)
    /\ result = StatusFailure(500, "<html>")

----------------------------------------------------------------------------
(* Properties of the inbound parser *)

\* the parser returned a record for a payload with every required field
Parsed == pc = "returned" /\ op = "parse_inbound_message" /\ Truthy(call["request"])

InputData == call["request"].d["data"].d

\* C9: the parser's result has no `caption` key when data.type is "chat", and has
\* `caption` equal to `body` for any other type, the "unknown" that stands for an
\* absent data.type included.
C9_CaptionFollowsType ==
    Parsed =>
        /\ ("type" \in DOMAIN InputData /\ InputData["type"] = PyStr("chat")) =>
              "caption" \notin DOMAIN result.d
        /\ ("type" \in DOMAIN InputData /\ InputData["type"] # PyStr("chat")) =>
              /\ "caption" \in DOMAIN result.d
              /\ result.d["caption"] = result.d["body"]
              /\ result.d["caption"] = InputData["body"]
        /\ "type" \notin DOMAIN InputData =>
              /\ result.d["message_type"] = PyStr("unknown")
              /\ "caption" \in DOMAIN result.d
              /\ result.d["caption"] = result.d["body"]
              /\ result.d["caption"] = InputData["body"]

C9_Witness ==
    /\ Parsed
    /\ "type" \notin DOMAIN InputData
    /\ InputData["body"] = PyStr("How are you?")
    /\ result.d["caption"] = PyStr("How are you?")

\* s without a trailing "@c.us"
StripSuffix(s) ==
    IF Len(s) >= 5 /\ SubSeq(s, Len(s) - 4, Len(s)) = "@c.us"
    THEN SubSeq(s, 1, Len(s) - 5)
    ELSE s

\* C10 (as claimed): the output author, sender_number and agent_number are the
\* input data.author, data.from and data.to with the trailing "@c.us" removed.
C10_StripsAllThree ==
    Parsed =>
        /\ result.d["author"] = PyStr(StripSuffix(InputData["author"].s))
        /\ result.d["sender_number"] = PyStr(StripSuffix(InputData["from"].s))
        /\ result.d["agent_number"] = PyStr(StripSuffix(InputData["to"].s))

\* the parser has finished, by returning or by raising
ParserDone == op = "parse_inbound_message" /\ Finished

\* key k of the nested data object is not in the payload
AbsentData(req, k) ==
    ~("data" \in DOMAIN req.d /\ k \in DOMAIN req.d["data"].d)

ClaimedRequired == {"id", "time", "author", "fromMe", "from", "to", "body"}

\* C11: for a non-empty payload the parser raises a key-error-class exception and
\* returns nothing when any of data.id, data.time, data.author, data.fromMe,
\* data.from, data.to or data.body is missing; for an empty or falsy input it
\* returns the empty mapping without raising.
C11_MissingRequiredRaises ==
    ParserDone =>
        /\ ~Truthy(call["request"]) =>
              /\ pc = "returned"
              /\ raised = ""
              /\ result = PyDict(NoFields)
        /\ (/\ Truthy(call["request"])
            /\ \E k \in ClaimedRequired : AbsentData(call["request"], k)) =>
              /\ pc = "raised"
              /\ IsInstance(raised, "LookupError")
              /\ result = PyNone

C11_Witness ==
    /\ ParserDone
    /\ "data" \in DOMAIN call["request"].d
    /\ DataKeys \ DOMAIN call["request"].d["data"].d = {"body"}
    /\ pc = "raised"
    /\ raised = "KeyError"

\* the seven listed fields of the data object are in the payload
ListedPresent(req) ==
    /\ Truthy(req)
    /\ "data" \in DOMAIN req.d
    /\ ClaimedRequired \subseteq DOMAIN req.d["data"].d

\* every key the parser subscripts is in the payload: the seven listed fields
\* and the top-level instanceId and event_type
RequiredPresent(req) ==
    /\ ListedPresent(req)
    /\ {"instanceId", "event_type"} \subseteq DOMAIN req.d

\* the output field is the input field when present and the default otherwise
CopiedOrDefault(out, in, default) ==
    result.d[out] = IF in \in DOMAIN InputData THEN InputData[in] ELSE default

\* the parser returned, with the defaults in place of the absent optional fields
SucceedsWithDefaults ==
    /\ pc = "returned"
    /\ CopiedOrDefault("sender_name", "pushname", PyStr(""))
    /\ CopiedOrDefault("parent_message", "quotedMsg", PyStr(""))
    /\ CopiedOrDefault("media", "media", PyStr(""))
    /\ CopiedOrDefault("location", "location", PyStr(""))
    /\ CopiedOrDefault("message_type", "type", PyStr("unknown"))

\* C12 as stated: when the required fields (the seven listed fields of the data
\* object) are present the parser succeeds whichever of the optional fields are
\* absent: sender_name, parent_message, media and location are the empty string
\* for an absent pushname, quotedMsg, media and location, and message_type is
\* "unknown" for an absent data.type.
C12_ListedFieldsSuffice ==
    (ParserDone /\ ListedPresent(call["request"])) => SucceedsWithDefaults

\* C12 amended: the same, when the top-level instanceId and event_type are
\* present as well as the seven listed fields of the data object.
C12_OptionalFieldsDefault ==
    (ParserDone /\ RequiredPresent(call["request"])) => SucceedsWithDefaults

C12_Witness ==
    /\ ParserDone
    /\ RequiredPresent(call["request"])
    /\ DOMAIN InputData = ClaimedRequired
    /\ pc = "returned"
    /\ result.d["sender_name"] = PyStr("")
    /\ result.d["parent_message"] = PyStr("")
    /\ result.d["media"] = PyStr("")
    /\ result.d["location"] = PyStr("")
    /\ result.d["message_type"] = PyStr("unknown")

----------------------------------------------------------------------------
(* Properties of download_media and api_transcribe_audio_url *)

\* the step in which download_media runs from the transport's answer to its end
DownloadCompletes ==
    /\ pc = "waiting"
    /\ op = "download_media"
    /\ pc' \in {"returned", "raised"}

\* the fetch succeeded: the transport answered, with a success (2xx) status
Fetched(out) == out.exc = "" /\ Is2xx(out.status_code)

\* C13: download_media fetches the URL once. With a filename and a successful
\* fetch it writes the fetched bytes to that path and reports success when the
\* path exists afterwards (an error dict otherwise); with no filename it writes no
\* file and returns the raw bytes with the MIME type; when the fetch fails, by a
\* transport error or a non-success HTTP status, it returns {"error": ...} without
\* raising and without creating or modifying any file.
C13_DownloadContract ==
    [][DownloadCompletes =>
        LET filename == Bind(op, call).filename IN
        /\ nRequests' = 1
        /\ (Fetched(response') /\ filename # "") =>
              /\ pc' = "returned"
              /\ fs' = WriteFile(fs, filename, response'.text)
              /\ IF filename \in DOMAIN fs'
                 THEN result' = PyDict([success |->
                          PyStr("media saved to " \o filename \o " successfully")])
                 ELSE IsErrorShape(result')
        /\ (Fetched(response') /\ filename = "") =>
              /\ pc' = "returned"
              /\ fs' = fs
              /\ result' = PyDict([success |->
                     PyDict([mime_type |-> PyStr(response'.ctype),
                             content |-> PyBytes(response'.text)])])
        /\ ~Fetched(response') =>
              /\ pc' = "returned"
              /\ raised' = ""
              /\ DOMAIN result'.d = {"error"}
              /\ fs' = fs
    ]_vars

\* api_transcribe_audio_url has finished, by returning or by raising
TranscribeDone == op = "api_transcribe_audio_url" /\ Finished

\* C14: api_transcribe_audio_url never raises and always returns a dict with
\* exactly one key, "success" or "error" (never None): "error" when the audio
\* download failed or the upload failed, "success" only when the endpoint
\* answered 201 (which no upload of this revision reaches); and afterwards the
\* uniquely named temporary audio file no longer exists.
C14_TranscribeNeverRaises ==
    TranscribeDone =>
        /\ pc = "returned"
        /\ raised = ""
        /\ result.t = "dict"
        /\ DOMAIN result.d \in {{"success"}, {"error"}}
        /\ (~Fetched(response) => DOMAIN result.d = {"error"})
        /\ Uuids \cap DOMAIN fs = {}

====
